---- MODULE Spec2Model ----
(***************************************************************************)
(* Model of PixelPainterApp (src/pixel_painter.py): the painting loop run  *)
(* on a background thread, the controlling Tk thread (buttons and deferred *)
(* root.after callbacks) and the global F1 hotkey.                         *)
(*                                                                         *)
(* Colours are RGB triples <<r, g, b>> (the parsed value of the 6-digit    *)
(* hex string); None is the empty tuple.  Luminance is kept in thousandths *)
(* (299 r + 587 g + 114 b) so that it stays an integer.                    *)
(***************************************************************************)
EXTENDS Integers, Sequences, FiniteSets, TLC

\* the grid is GridW x GridH cells (32 x 32 in the program)
GridW == 2
GridH == 2
\* thread slots: at most this many painting threads alive at once
MaxThreads == 2
\* the operator clicks "start" only while at most this many deferred
\* callbacks are still waiting on the Tk thread
MaxPending == 2

None == <<>>

Black == <<0, 0, 0>>
Dark == <<3, 4, 0>>
Mid == <<6, 8, 0>>
\* the colours an image may hold
Palette == {Black, Dark, Mid}
\* values of the "Color Tolerance" field
Tolerances == {0, 5}

\* what int(self.color_tolerance.get()) can return: a negative number too
FieldTolerances == Tolerances \cup {-1}

Threads == 1 .. MaxThreads

VARIABLES
    pixel_colors,     \* self.pixel_colors: GridH rows of GridW colours, <<>> before an upload
    color_tolerance,  \* the value of the tolerance entry field
    is_painting,      \* self.is_painting
    is_paused,        \* self.is_paused
    should_abort,     \* self.should_abort
    start_btn,        \* state of self.start_btn
    pause_btn,        \* state of self.pause_btn
    abort_btn,        \* state of self.abort_btn
    after_queue,      \* callbacks handed to root.after(0, ...), not yet run
    thread            \* thread[w]: the locals of painting_loop on thread slot w

vars == <<pixel_colors, color_tolerance, is_painting, is_paused, should_abort,
          start_btn, pause_btn, abort_btn, after_queue, thread>>

flags == <<is_painting, is_paused, should_abort>>
buttons == <<start_btn, pause_btn, abort_btn>>
image == <<pixel_colors, color_tolerance>>

----------------------------------------------------------------------------
(* Colour model *)

Square(n) == n * n

\* calculate_luminance, in thousandths
calculate_luminance(hex_color) ==
    299 * hex_color[1] + 587 * hex_color[2] + 114 * hex_color[3]

\* the square of calculate_color_distance (the radicand of math.sqrt)
calculate_color_distance2(hex_color1, hex_color2) ==
    Square(hex_color2[1] - hex_color1[1])
        + Square(hex_color2[2] - hex_color1[2])
        + Square(hex_color2[3] - hex_color1[3])

\* distance <= tolerance, for an integer tolerance: sqrt(d2) <= t
WithinTolerance_Strict(hex_color1, hex_color2, tolerance) ==
    /\ tolerance >= 0
    /\ calculate_color_distance2(hex_color1, hex_color2) < Square(tolerance)

WithinTolerance_Rounded(hex_color1, hex_color2, tolerance) ==
    /\ tolerance >= 0
    /\ calculate_color_distance2(hex_color1, hex_color2) <= Square(tolerance + 1)

WithinTolerance(hex_color1, hex_color2, tolerance) ==
    /\ tolerance >= 0
    /\ calculate_color_distance2(hex_color1, hex_color2) <= Square(tolerance)

\* needs_color_change of painting_loop
NeedsColorChange(previous_color, hex_color, tolerance) ==
    \/ previous_color = None
    \/ ~WithinTolerance(previous_color, hex_color, tolerance)

----------------------------------------------------------------------------
(* Pixel list and its sort *)

\* the pixels list in the order of the two nested range() loops: y outer, x inner
Pixel(grid, x, y) ==
    [luminance |-> calculate_luminance(grid[y + 1][x + 1]),
     hex_color |-> grid[y + 1][x + 1], x |-> x, y |-> y]

CollectPixels(grid) ==
    [i \in 1 .. (GridW * GridH) |->
        Pixel(grid, (i - 1) % GridW, (i - 1) \div GridW)]

\* the place of s[i] once s is sorted by luminance: after every pixel with a
\* smaller key, and after the pixels with the same key that come before it
Rank_Unstable(s, i) ==
    1 + Cardinality({j \in 1 .. Len(s) :
            \/ s[j].luminance < s[i].luminance
            \/ s[j].luminance = s[i].luminance /\ j > i})

Rank(s, i) ==
    1 + Cardinality({j \in 1 .. Len(s) :
            \/ s[j].luminance < s[i].luminance
            \/ s[j].luminance = s[i].luminance /\ j < i})

\* pixels.sort(key=lambda p: p[0]): ascending, stable
SortByLuminance(s) ==
    [k \in 1 .. Len(s) |-> s[CHOOSE i \in 1 .. Len(s) : Rank(s, i) = k]]

\* black and its two nearest neighbours: one unit of blue, one unit of red
NearPalette == {Black, <<0, 0, 1>>, <<1, 0, 0>>}

\* every image over the palette
AllGrids == [1 .. GridH -> [1 .. GridW -> Palette]]

\* the colour of cell number i (row-major, from 0) in the sample images
Shade(i) == CASE i % 3 = 0 -> Mid [] i % 3 = 1 -> Black [] OTHER -> Dark

\* two images for the runs with several threads: one colour only, and a
\* mix of the three colours that the sort has to reorder
SampleGrids ==
    {[y \in 1 .. GridH |-> [x \in 1 .. GridW |-> Dark]],
     [y \in 1 .. GridH |-> [x \in 1 .. GridW |-> Shade((y - 1) * GridW + (x - 1))]]}

----------------------------------------------------------------------------
(* Thread slots *)

IdleThread ==
    [pc |-> "idle", pixels |-> <<>>, tolerance |-> 0, pixel_index |-> 0,
     previous_color |-> None, painted_pixels |-> 0, color_changes |-> 0,
     skipped_color_changes |-> 0, actions |-> <<>>, report |-> <<>>,
     progress |-> <<>>, counts |-> <<>>]

Alive(w) == thread[w].pc # "idle"

\* the positions from which painting_loop can still reach an input action
CanPaint(w) ==
    thread[w].pc \in {"countdown", "loop", "pause_check", "pause_sleep",
                      "select", "place"}

FreeSlot == CHOOSE w \in Threads :
    /\ ~Alive(w)
    /\ \A v \in Threads : ~Alive(v) => w <= v

\* the three root.after calls of finish_painting
FinishCallbacks == <<"start_normal", "pause_disabled", "abort_disabled">>

----------------------------------------------------------------------------
Init ==
    /\ pixel_colors \in SampleGrids \cup {<<>>}
    /\ color_tolerance \in Tolerances
    /\ is_painting = FALSE
    /\ is_paused = FALSE
    /\ should_abort = FALSE
    /\ start_btn = "normal"
    /\ pause_btn = "disabled"
    /\ abort_btn = "disabled"
    /\ after_queue = <<>>
    /\ thread = [w \in Threads |-> IdleThread]

----------------------------------------------------------------------------
(* The controlling thread and the hotkey *)

\* click on "Start Painting"
start_painting ==
    /\ start_btn = "normal"
    /\ pixel_colors # <<>>
    /\ Len(after_queue) <= MaxPending
    /\ \E w \in Threads : ~Alive(w)
    /\ is_painting' = TRUE
    /\ is_paused' = FALSE
    /\ should_abort' = FALSE
    /\ start_btn' = "disabled"
    /\ pause_btn' = "normal"
    /\ abort_btn' = "normal"
    /\ thread' = [thread EXCEPT ![FreeSlot] =
                    [IdleThread EXCEPT !.pc = "countdown",
                                       !.tolerance = color_tolerance]]
    /\ UNCHANGED <<image, after_queue>>

\* self.is_paused = not self.is_paused (the rest only relabels the button and logs)
toggle_pause_ClearsAbort ==
    /\ is_paused' = ~is_paused
    /\ should_abort' = (should_abort /\ is_paused')
    /\ UNCHANGED <<image, is_painting, buttons, after_queue, thread>>

toggle_pause ==
    /\ is_paused' = ~is_paused
    /\ UNCHANGED <<image, is_painting, should_abort, buttons, after_queue, thread>>

\* click on "Pause" / "Resume"
pause_click ==
    /\ pause_btn = "normal"
    /\ toggle_pause

\* F1 pressed: on_ctrl_press
on_ctrl_press ==
    /\ is_painting
    /\ toggle_pause

\* click on "Abort"
abort_painting ==
    /\ abort_btn = "normal"
    /\ should_abort' = TRUE
    /\ is_paused' = FALSE
    /\ UNCHANGED <<image, is_painting, buttons, after_queue, thread>>

\* the Tk thread runs the oldest deferred callback
run_after ==
    /\ after_queue # <<>>
    /\ after_queue' = Tail(after_queue)
    /\ start_btn' = IF Head(after_queue) = "start_normal" THEN "normal" ELSE start_btn
    /\ pause_btn' = IF Head(after_queue) = "pause_disabled" THEN "disabled" ELSE pause_btn
    /\ abort_btn' = IF Head(after_queue) = "abort_disabled" THEN "disabled" ELSE abort_btn
    /\ UNCHANGED <<image, flags, thread>>

----------------------------------------------------------------------------
(* painting_loop on thread slot w *)

\* the countdown, the collection of the pixels and their sort
Prepare(w) ==
    /\ thread[w].pc = "countdown"
    /\ thread' = [thread EXCEPT ![w].pc = "loop",
                                ![w].pixels = SortByLuminance(CollectPixels(pixel_colors))]
    /\ UNCHANGED <<image, flags, buttons, after_queue>>

\* what the head of the for loop and its abort check decide
LoopHeadNext_NoAbortCheck(t, abort) ==
    IF t.pixel_index >= Len(t.pixels) THEN "complete" ELSE "pause_check"

LoopHeadNext(t, abort) ==
    IF t.pixel_index >= Len(t.pixels) THEN "complete"
    ELSE IF abort THEN "aborted"
    ELSE "pause_check"

\* the for statement and "if self.should_abort": the loop ends, or the run is
\* aborted (logged), or the cell is entered
LoopHead(w) ==
    /\ thread[w].pc = "loop"
    /\ LET t == thread[w]
           next == LoopHeadNext(t, should_abort)
       IN  thread' = [thread EXCEPT ![w] =
             CASE next = "complete" ->
                    [t EXCEPT !.pc = "finally", !.report = Append(@, "complete"),
                              !.counts = <<t.painted_pixels, t.color_changes,
                                           t.skipped_color_changes>>]
               [] next = "aborted" ->
                    [t EXCEPT !.pc = "abort_finish", !.report = Append(@, "aborted")]
               [] OTHER -> [t EXCEPT !.pc = "pause_check"]]
    /\ UNCHANGED <<image, flags, buttons, after_queue>>

\* where the cell goes once the pause loop is left: lines 538-546
AfterPause_SkipUncounted(t) ==
    LET hex_color == t.pixels[t.pixel_index + 1].hex_color
    IN  IF NeedsColorChange(t.previous_color, hex_color, t.tolerance)
        THEN [t EXCEPT !.pc = "select"]
        ELSE [t EXCEPT !.pc = "place"]

AfterPause(t) ==
    LET hex_color == t.pixels[t.pixel_index + 1].hex_color
    IN  IF NeedsColorChange(t.previous_color, hex_color, t.tolerance)
        THEN [t EXCEPT !.pc = "select"]
        ELSE [t EXCEPT !.pc = "place",
                       !.skipped_color_changes = @ + 1]

\* "while self.is_paused": enter the pause loop or go on with the cell
PauseCheck(w) ==
    /\ thread[w].pc = "pause_check"
    /\ thread' = [thread EXCEPT ![w] =
                    IF is_paused THEN [@ EXCEPT !.pc = "pause_sleep"]
                    ELSE AfterPause(@)]
    /\ UNCHANGED <<image, flags, buttons, after_queue>>

\* one turn of the pause loop: sleep, then "if self.should_abort"
PausePoll_Consumes(t, abort) ==
    IF abort THEN [t EXCEPT !.pc = "abort_finish"]
    ELSE [t EXCEPT !.pc = "pause_check", !.pixel_index = @ + 1]

PausePoll(t, abort) ==
    IF abort THEN [t EXCEPT !.pc = "abort_finish"]
    ELSE [t EXCEPT !.pc = "pause_check"]

PauseSleep(w) ==
    /\ thread[w].pc = "pause_sleep"
    /\ thread' = [thread EXCEPT ![w] = PausePoll(@, should_abort)]
    /\ UNCHANGED <<image, flags, buttons, after_queue>>

\* the colour picker interaction, lines 549-579; the code goes straight on to
\* the click on the tile, whatever should_abort has become meanwhile
SelectStep_ChecksAbort(t, abort) ==
    LET hex_color == t.pixels[t.pixel_index + 1].hex_color
    IN  [t EXCEPT !.pc = IF abort THEN "abort_finish" ELSE "place",
                  !.actions = Append(@, <<"SelectColor", hex_color>>),
                  !.color_changes = @ + 1,
                  !.previous_color = hex_color]

SelectStep(t, abort) ==
    LET hex_color == t.pixels[t.pixel_index + 1].hex_color
    IN  [t EXCEPT !.pc = "place",
                  !.actions = Append(@, <<"SelectColor", hex_color>>),
                  !.color_changes = @ + 1,
                  !.previous_color = hex_color]

SelectColor(w) ==
    /\ thread[w].pc = "select"
    /\ thread' = [thread EXCEPT ![w] = SelectStep(@, should_abort)]
    /\ UNCHANGED <<image, flags, buttons, after_queue>>

\* the click on the tile, lines 583-594, and the step to the next pixel;
\* progress is the fraction handed to the progress bar, as <<cells, total>>
PlaceStep_SkipsCell(t) ==
    LET p == t.pixels[t.pixel_index + 1]
    IN  [t EXCEPT !.pc = "loop",
                  !.actions = Append(@, <<"PlaceTile", p.x, p.y>>),
                  !.painted_pixels = @ + 1,
                  !.progress = <<t.pixel_index + 1, Len(t.pixels)>>,
                  !.pixel_index = @ + 2]

PlaceStep(t) ==
    LET p == t.pixels[t.pixel_index + 1]
    IN  [t EXCEPT !.pc = "loop",
                  !.actions = Append(@, <<"PlaceTile", p.x, p.y>>),
                  !.painted_pixels = @ + 1,
                  !.progress = <<t.pixel_index + 1, Len(t.pixels)>>,
                  !.pixel_index = @ + 1]

PlaceTile(w) ==
    /\ thread[w].pc = "place"
    /\ thread' = [thread EXCEPT ![w] = PlaceStep(@)]
    /\ UNCHANGED <<image, flags, buttons, after_queue>>

\* an input call (autoit) raises inside SelectColor or PlaceTile
WhenInputFails_GoesOn(t) ==
    [t EXCEPT !.pc = "loop", !.pixel_index = @ + 1,
              !.report = Append(@, "error")]

WhenInputFails(t) ==
    [t EXCEPT !.pc = "except"]

InputFails(w) ==
    /\ thread[w].pc \in {"select", "place"}
    /\ thread' = [thread EXCEPT ![w] = WhenInputFails(@)]
    /\ UNCHANGED <<image, flags, buttons, after_queue>>

\* except Exception as e: the error is logged
ExceptStep(t) ==
    [t EXCEPT !.pc = "finally", !.report = Append(@, "error")]

Except(w) ==
    /\ thread[w].pc = "except"
    /\ thread' = [thread EXCEPT ![w] = ExceptStep(@)]
    /\ UNCHANGED <<image, flags, buttons, after_queue>>

\* finish_painting called on the abort paths (lines 529 and 535), then return
AbortFinish(w) ==
    /\ thread[w].pc = "abort_finish"
    /\ is_painting' = FALSE
    /\ after_queue' = after_queue \o FinishCallbacks
    /\ thread' = [thread EXCEPT ![w].pc = "finally"]
    /\ UNCHANGED <<image, is_paused, should_abort, buttons>>

\* finally: finish_painting; the thread ends
Finally(w) ==
    /\ thread[w].pc = "finally"
    /\ is_painting' = FALSE
    /\ after_queue' = after_queue \o FinishCallbacks
    /\ thread' = [thread EXCEPT ![w] = IdleThread]
    /\ UNCHANGED <<image, is_paused, should_abort, buttons>>

painting_loop(w) ==
    \/ Prepare(w)
    \/ LoopHead(w)
    \/ PauseCheck(w)
    \/ PauseSleep(w)
    \/ SelectColor(w)
    \/ PlaceTile(w)
    \/ InputFails(w)
    \/ Except(w)
    \/ AbortFinish(w)
    \/ Finally(w)

Next ==
    \/ start_painting
    \/ pause_click
    \/ on_ctrl_press
    \/ abort_painting
    \/ run_after
    \/ \E w \in Threads : painting_loop(w)

Spec == Init /\ [][Next]_vars

\* one run on any image, from the click on "start" to the end of its thread:
\* no abort, no failing input call, no pause
InitSched ==
    /\ pixel_colors \in AllGrids
    /\ color_tolerance \in Tolerances
    /\ is_painting = FALSE
    /\ is_paused = FALSE
    /\ should_abort = FALSE
    /\ start_btn = "normal"
    /\ pause_btn = "disabled"
    /\ abort_btn = "disabled"
    /\ after_queue = <<>>
    /\ thread = [w \in Threads |-> IdleThread]

NextSched ==
    \/ start_painting
    \/ \E w \in Threads :
        \/ Prepare(w)
        \/ LoopHead(w)
        \/ PauseCheck(w)
        \/ SelectColor(w)
        \/ PlaceTile(w)
        \/ Finally(w)

SpecSched == InitSched /\ [][NextSched]_vars

\* the same with the pause button and the hotkey, for the tolerances that let
\* a selected colour be reused for another one
InitPause ==
    /\ pixel_colors \in AllGrids
    /\ color_tolerance \in {t \in Tolerances : t > 0}
    /\ is_painting = FALSE
    /\ is_paused = FALSE
    /\ should_abort = FALSE
    /\ start_btn = "normal"
    /\ pause_btn = "disabled"
    /\ abort_btn = "disabled"
    /\ after_queue = <<>>
    /\ thread = [w \in Threads |-> IdleThread]

NextPause ==
    \/ start_painting
    \/ pause_click
    \/ on_ctrl_press
    \/ \E w \in Threads :
        \/ Prepare(w)
        \/ LoopHead(w)
        \/ PauseCheck(w)
        \/ PauseSleep(w)
        \/ SelectColor(w)
        \/ PlaceTile(w)
        \/ Finally(w)

SpecPause == InitPause /\ [][NextPause]_vars

\* one run with tolerance 0 on any image over colours that differ by one unit
\* in one channel
InitZero ==
    /\ pixel_colors \in [1 .. GridH -> [1 .. GridW -> NearPalette]]
    /\ color_tolerance = 0
    /\ is_painting = FALSE
    /\ is_paused = FALSE
    /\ should_abort = FALSE
    /\ start_btn = "normal"
    /\ pause_btn = "disabled"
    /\ abort_btn = "disabled"
    /\ after_queue = <<>>
    /\ thread = [w \in Threads |-> IdleThread]

SpecZero == InitZero /\ [][NextSched]_vars

\* one run on any image with any integer the tolerance field lets through:
\* get_coords only requires int() to accept the text
InitField ==
    /\ pixel_colors \in AllGrids
    /\ color_tolerance \in FieldTolerances
    /\ is_painting = FALSE
    /\ is_paused = FALSE
    /\ should_abort = FALSE
    /\ start_btn = "normal"
    /\ pause_btn = "disabled"
    /\ abort_btn = "disabled"
    /\ after_queue = <<>>
    /\ thread = [w \in Threads |-> IdleThread]

SpecField == InitField /\ [][NextSched]_vars

\* the threads are scheduled fairly and the Tk thread runs its callbacks;
\* the operator and the input layer owe nothing
FairSpec ==
    /\ Spec
    /\ \A w \in Threads : WF_vars(painting_loop(w))
    /\ WF_vars(run_after)

----------------------------------------------------------------------------
(* What the runs are checked against *)

NumCells == GridW * GridH

IsPlaceTile(a) == a[1] = "PlaceTile"

\* the PlaceTile actions of a log, in order
Places(actions) == SelectSeq(actions, IsPlaceTile)

\* thread slot w takes a step
Stepped(w) == thread'[w] # thread[w]

\* the colour of cell (x, y) of the image
ColorAt(x, y) == pixel_colors[y + 1][x + 1]

\* C1 as stated: once should_abort is set while a thread is between two cells
\* (at the loop head or in the pause loop, nothing of the next cell issued),
\* the thread does not go on to the input actions of the next cell.
C1_AbortBetweenCellsStopsAll ==
    [][\A w \in Threads :
        (should_abort /\ thread[w].pc \in {"loop", "pause_check", "pause_sleep"})
            => thread'[w].pc \notin {"select", "place"}]_vars

\* C1 as amended: a thread that finds should_abort set at one of its two
\* checks (top of a cell, or in the pause loop) with k cells done stops there:
\* it goes to finish_painting with exactly k PlaceTile actions in its log and
\* issues no input action afterwards.
C1_AbortSeenAtCheckStops ==
    [][\A w \in Threads :
        LET t == thread[w]
        IN  /\ ( /\ should_abort
                 /\ Stepped(w)
                 /\ \/ t.pc = "loop" /\ t.pixel_index < Len(t.pixels)
                    \/ t.pc = "pause_sleep" )
               => /\ thread'[w].pc = "abort_finish"
                  /\ Len(Places(thread'[w].actions)) = t.pixel_index
            /\ (t.pc = "abort_finish" /\ Stepped(w))
               => /\ thread'[w].pc = "finally"
                  /\ thread'[w].actions = t.actions
            /\ (t.pc = "finally" /\ Stepped(w)) => thread'[w].pc = "idle"]_vars

\* a thread has seen the abort after at least one painted cell
C1_Witness ==
    \E w \in Threads :
        /\ thread[w].pc = "abort_finish"
        /\ thread[w].pixel_index >= 1
        /\ Len(Places(thread[w].actions)) = thread[w].pixel_index

\* C2: at most one thread can still issue input actions, and the start button
\* is disabled whenever there is one.
C2_OneWorkerStartDisabled ==
    /\ Cardinality({w \in Threads : CanPaint(w)}) <= 1
    /\ (\E w \in Threads : CanPaint(w)) => start_btn = "disabled"

\* C3: a run that ends complete has placed NumCells tiles, each cell once.
C3_EveryCellPlacedOnce ==
    \A w \in Threads :
        (thread[w].pc = "finally" /\ thread[w].report = <<"complete">>)
            => LET pl == Places(thread[w].actions)
               IN  /\ Len(pl) = NumCells
                   /\ \A x \in 0 .. GridW - 1 : \A y \in 0 .. GridH - 1 :
                        Cardinality({i \in 1 .. Len(pl) :
                                        pl[i][2] = x /\ pl[i][3] = y}) = 1

C3_Witness ==
    \E w \in Threads :
        /\ thread[w].pc = "finally"
        /\ thread[w].report = <<"complete">>
        /\ Len(thread[w].actions) > NumCells

\* cell a comes before cell b in row-major order
RowMajorBefore(a, b) == a[3] < b[3] \/ (a[3] = b[3] /\ a[2] < b[2])

\* C4: the tiles are placed by ascending luminance, and cells of equal
\* luminance in row-major order.
C4_StableLuminanceOrder ==
    \A w \in Threads :
        LET pl == Places(thread[w].actions)
        IN  \A i, j \in 1 .. Len(pl) :
                i < j =>
                    LET li == calculate_luminance(ColorAt(pl[i][2], pl[i][3]))
                        lj == calculate_luminance(ColorAt(pl[j][2], pl[j][3]))
                    IN  /\ li <= lj
                        /\ li = lj => RowMajorBefore(pl[i], pl[j])

\* a finished run in which two cells tie and a darker cell overtook a
\* brighter one that comes first in the image
C4_Witness ==
    \E w \in Threads :
        LET pl == Places(thread[w].actions)
        IN  /\ Len(pl) = NumCells
            /\ \E i, j \in 1 .. Len(pl) :
                /\ i < j
                /\ ColorAt(pl[i][2], pl[i][3]) = ColorAt(pl[j][2], pl[j][3])
            /\ \E i, j \in 1 .. Len(pl) :
                /\ i < j
                /\ RowMajorBefore(pl[j], pl[i])

\* the colour of the last SelectColor among the first n actions of a log
LastSelected(actions, n) ==
    LET sel == {i \in 1 .. n : actions[i][1] = "SelectColor"}
    IN  IF sel = {} THEN None
        ELSE actions[CHOOSE i \in sel : \A k \in sel : k <= i][2]

\* C5: a cell's PlaceTile is preceded by a SelectColor of its colour exactly
\* when no colour was selected before the cell or the selected colour is
\* farther than the tolerance from the cell's; between cells previous_color is
\* the colour selected last.
C5_SelectExactlyWhenNeeded ==
    \A w \in Threads :
        LET acts == thread[w].actions
            tol == thread[w].tolerance
        IN  /\ \A i \in 1 .. Len(acts) :
                IsPlaceTile(acts[i]) =>
                    LET c == ColorAt(acts[i][2], acts[i][3])
                        selected == i > 1 /\ acts[i - 1][1] = "SelectColor"
                        last == LastSelected(acts, IF selected THEN i - 2 ELSE i - 1)
                        needed == \/ last = None
                                  \/ calculate_color_distance2(last, c) > tol * tol
                    IN  /\ selected <=> needed
                        /\ selected => acts[i - 1][2] = c
            /\ thread[w].pc \in {"loop", "pause_check", "pause_sleep", "place"}
                => thread[w].previous_color = LastSelected(acts, Len(acts))

\* a tile was placed without a SelectColor at a distance equal to the tolerance
C5_Witness ==
    \E w \in Threads :
        LET acts == thread[w].actions
            tol == thread[w].tolerance
        IN  \E i \in 2 .. Len(acts) :
                /\ IsPlaceTile(acts[i])
                /\ IsPlaceTile(acts[i - 1])
                /\ tol > 0
                /\ calculate_color_distance2(LastSelected(acts, i - 1),
                        ColorAt(acts[i][2], acts[i][3])) = tol * tol

\* C6: an abort requested while a thread is running leads to the end of that
\* thread's painting.
C6_AbortLeadsToFinished ==
    \A w \in Threads : (should_abort /\ CanPaint(w)) ~> ~CanPaint(w)

RECURSIVE RefWalk(_, _, _)
\* <<the actions, the selected colour>> after the first k pixels of a run that
\* is never paused
RefWalk(pixels, tolerance, k) ==
    IF k = 0 THEN <<<<>>, None>>
    ELSE LET r == RefWalk(pixels, tolerance, k - 1)
             p == pixels[k]
         IN  IF NeedsColorChange(r[2], p.hex_color, tolerance)
             THEN <<Append(Append(r[1], <<"SelectColor", p.hex_color>>),
                           <<"PlaceTile", p.x, p.y>>),
                    p.hex_color>>
             ELSE <<Append(r[1], <<"PlaceTile", p.x, p.y>>), r[2]>>

\* C7: whatever the pauses, a thread that enters a cell, polls in the pause
\* loop or has ended its loop, with k pixels done, has issued the actions of an
\* unpaused run over the first k pixels of the sorted image and holds the same
\* previous_color (so nothing is consumed in the pause loop); a run that ends
\* complete has done all the pixels.
C7_PauseChangesNothing ==
    \A w \in Threads :
        LET t == thread[w]
        IN  /\ t.pc \in {"pause_check", "pause_sleep", "finally"}
                => <<t.actions, t.previous_color>>
                        = RefWalk(t.pixels, t.tolerance, t.pixel_index)
            /\ (t.pc = "pause_check" /\ t.pixel_index = 0)
                => t.pixels = SortByLuminance(CollectPixels(pixel_colors))
            /\ (t.pc = "finally" /\ t.report = <<"complete">>)
                => t.pixel_index = NumCells

\* a thread blocked in the pause loop in the middle of its run
C7_Witness ==
    \E w \in Threads :
        /\ thread[w].pc = "pause_sleep"
        /\ thread[w].pixel_index >= 1
        /\ thread[w].pixel_index < NumCells
        /\ thread[w].previous_color # None

\* C8: a failed input call ends the run: the error is logged, no input action
\* follows, and the thread ends through finish_painting (is_painting false,
\* the callback that enables the start button handed to the Tk thread)
\* without raising.
C8_FailureEndsRun ==
    [][\A w \in Threads :
        LET t == thread[w]
        IN  /\ (\E i \in 1 .. Len(t.report) : t.report[i] = "error")
                => t.pc = "finally"
            /\ (t.pc = "except" /\ Stepped(w))
                => /\ thread'[w].pc = "finally"
                   /\ thread'[w].report = Append(t.report, "error")
                   /\ thread'[w].actions = t.actions
            /\ (t.pc = "finally" /\ Stepped(w))
                => /\ thread'[w].pc = "idle"
                   /\ ~is_painting'
                   /\ \E i \in 1 .. Len(after_queue') :
                        after_queue'[i] = "start_normal"]_vars

\* a run that failed after some actions, about to finish
C8_Witness ==
    \E w \in Threads :
        /\ thread[w].pc = "finally"
        /\ thread[w].report = <<"error">>
        /\ thread[w].actions # <<>>

\* C9: a thread that stops on an abort has reported "aborted" by the time it
\* calls finish_painting.
C9_AbortIsReported ==
    \A w \in Threads :
        thread[w].pc = "abort_finish"
            => \E i \in 1 .. Len(thread[w].report) : thread[w].report[i] = "aborted"

\* the SelectColor of the current cell is done and its PlaceTile is not
SelectDone(t) ==
    /\ t.pc = "place"
    /\ t.actions # <<>>
    /\ t.actions[Len(t.actions)][1] = "SelectColor"

\* C10 as stated: with should_abort set when the SelectColor of a cell is
\* done, the PlaceTile of that cell is not performed.
C10_AbortCheckedBeforePlaceTile ==
    [][\A w \in Threads :
        (should_abort /\ SelectDone(thread[w]))
            => thread'[w].actions = thread[w].actions]_vars

\* C10 as amended: should_abort is checked once per cell, before its first
\* action; after the SelectColor of a cell the thread's next step is the
\* PlaceTile of the same cell (or a failed input call), whether or not
\* should_abort is set.
C10_PlaceTileFollowsSelectColor ==
    [][\A w \in Threads :
        LET t == thread[w]
        IN  /\ (t.pc = "select" /\ Stepped(w))
                => thread'[w].pc \in {"place", "except"}
            /\ (SelectDone(t) /\ Stepped(w))
                => \/ thread'[w].pc = "except"
                   \/ LET p == t.pixels[t.pixel_index + 1]
                      IN  /\ thread'[w].actions
                                = Append(t.actions, <<"PlaceTile", p.x, p.y>>)
                          /\ t.actions[Len(t.actions)][2] = p.hex_color]_vars

\* the abort arrived during the SelectColor of a cell after the first, and
\* the PlaceTile is next
C10_Witness ==
    \E w \in Threads :
        /\ should_abort
        /\ SelectDone(thread[w])
        /\ thread[w].pixel_index >= 1

\* C11 as stated: once should_abort is true it is true in every later state.
C11_AbortNeverCleared ==
    [][should_abort => should_abort']_vars

\* C11 as amended: should_abort, once set, is cleared by nothing but the
\* next start_painting: not by abort_painting, toggle_pause, the hotkey, the
\* deferred callbacks or any step of a painting thread.
C11_AbortClearedOnlyByStart ==
    [][(should_abort /\ ~should_abort') => start_painting]_vars

\* the run was resumed (pause toggled twice) after the abort, and a thread
\* has gone through finish_painting, with should_abort still set
C11_Witness ==
    /\ should_abort
    /\ is_paused
    /\ ~is_painting
    /\ \E w \in Threads : thread[w].pc = "finally"

IsSelectColor(a) == a[1] = "SelectColor"

\* C12: a complete run with tolerance 0 performs one SelectColor for the first
\* cell and one for every later cell, in the order painted, whose colour is
\* not the colour of the cell painted just before it.
C12_ZeroToleranceSelectCount ==
    \A w \in Threads :
        ( /\ thread[w].pc = "finally"
          /\ thread[w].report = <<"complete">>
          /\ thread[w].tolerance = 0 )
            => LET pl == Places(thread[w].actions)
               IN  /\ Len(pl) = NumCells
                   /\ Len(SelectSeq(thread[w].actions, IsSelectColor))
                        = 1 + Cardinality({k \in 2 .. Len(pl) :
                                ColorAt(pl[k][2], pl[k][3])
                                    # ColorAt(pl[k - 1][2], pl[k - 1][3])})

\* a complete run with tolerance 0 in which a cell one unit away from the
\* cell before it, and a cell equal to the cell before it, were painted
C12_Witness ==
    \E w \in Threads :
        LET pl == Places(thread[w].actions)
        IN  /\ thread[w].pc = "finally"
            /\ thread[w].report = <<"complete">>
            /\ thread[w].tolerance = 0
            /\ \E k \in 2 .. Len(pl) :
                calculate_color_distance2(ColorAt(pl[k][2], pl[k][3]),
                                          ColorAt(pl[k - 1][2], pl[k - 1][3])) = 1
            /\ \E k \in 2 .. Len(pl) :
                ColorAt(pl[k][2], pl[k][3]) = ColorAt(pl[k - 1][2], pl[k - 1][3])

\* C13: when a PlaceTile is about to be performed, a colour has been selected,
\* previous_color is the colour of the most recent SelectColor, and its
\* distance to the cell's colour is at most the tolerance.
C13_NoColorDrift ==
    \A w \in Threads :
        LET t == thread[w]
        IN  t.pc = "place"
                => /\ t.previous_color # None
                   /\ t.previous_color = LastSelected(t.actions, Len(t.actions))
                   /\ t.tolerance >= 0
                   /\ calculate_color_distance2(t.previous_color,
                            t.pixels[t.pixel_index + 1].hex_color)
                        <= t.tolerance * t.tolerance

\* C14: after every completed cell the counters agree with what was done:
\* color_changes + skipped_color_changes = painted_pixels = cells processed =
\* PlaceTile actions issued, color_changes = SelectColor actions issued >= 1,
\* and the progress handed over is cells processed / NumCells; a complete run
\* reports NumCells painted pixels and changes + skipped = NumCells.
C14_CountersAddUp ==
    \A w \in Threads :
        LET t == thread[w]
        IN  /\ t.pc = "loop"
                => /\ t.color_changes + t.skipped_color_changes = t.painted_pixels
                   /\ t.painted_pixels = t.pixel_index
                   /\ t.painted_pixels = Len(Places(t.actions))
                   /\ t.color_changes = Len(SelectSeq(t.actions, IsSelectColor))
                   /\ t.pixel_index >= 1
                        => /\ t.color_changes >= 1
                           /\ t.progress = <<t.pixel_index, NumCells>>
            /\ (t.pc = "finally" /\ t.report = <<"complete">>)
                => /\ t.counts[1] = NumCells
                   /\ t.counts[2] + t.counts[3] = NumCells
                   /\ t.counts[2] = Len(SelectSeq(t.actions, IsSelectColor))
                   /\ t.counts[2] >= 1

\* a complete run that changed colour more than once and skipped a change
C14_Witness ==
    \E w \in Threads :
        /\ thread[w].pc = "finally"
        /\ thread[w].report = <<"complete">>
        /\ thread[w].counts[2] >= 2
        /\ thread[w].counts[3] >= 1

====
